---------------------------- MODULE Spec2Model ----------------------------
(***************************************************************************)
(* ParseNode (scrapegraphai/nodes/parse_node.py): URL extraction,          *)
(* cleaning, resolution and classification, and the execute orchestrator.  *)
(*                                                                         *)
(* A Python str is a TLA+ string; TLC evaluates Len, SubSeq and \o on      *)
(* strings, so a character is the one-character string SubSeq(s, i, i)     *)
(* and indices are 1-based (Python index k is index k + 1 here).           *)
(* A Python list is a sequence, a Python set is a set.                     *)
(***************************************************************************)
EXTENDS Integers, Sequences, FiniteSets, TLC

----------------------------------------------------------------------------
\* Bounds of the model.

\* A document text is the concatenation of at most MaxFrags fragments.
MaxFrags == 2
\* A Cleaner candidate is the concatenation of at most MaxPieces pieces.
MaxPieces == 3

----------------------------------------------------------------------------
\* Strings.

Min(a, b) == IF a <= b THEN a ELSE b

\* s[i - 1] of Python, "" outside the string.
Ch(s, i) == IF i >= 1 /\ i <= Len(s) THEN SubSeq(s, i, i) ELSE ""

\* s[i - 1:] of Python.
From(s, i) == IF i > Len(s) THEN "" ELSE SubSeq(s, i, Len(s))

\* s[i - 1:].startswith(p)
At(s, i, p) ==
    i >= 1 /\ i + Len(p) - 1 <= Len(s) /\ SubSeq(s, i, i + Len(p) - 1) = p

startswith(s, p) == At(s, 1, p)

endswith(s, p) == Len(s) >= Len(p) /\ At(s, Len(s) - Len(p) + 1, p)

\* The length of the longest run of characters of C that starts at i.
RECURSIVE Run(_, _, _)
Run(s, i, C) ==
    IF i <= Len(s) /\ Ch(s, i) \in C THEN 1 + Run(s, i + 1, C) ELSE 0

\* The length of the longest run of characters outside C that starts at i.
RECURSIVE RunNot(_, _, _)
RunNot(s, i, C) ==
    IF i <= Len(s) /\ Ch(s, i) \notin C THEN 1 + RunNot(s, i + 1, C) ELSE 0

\* s.find(p, i - 1) + 1 of Python: the first index >= i where p occurs, or 0.
RECURSIVE find(_, _, _)
find(s, p, i) ==
    IF i + Len(p) - 1 > Len(s) THEN 0
    ELSE IF At(s, i, p) THEN i
    ELSE find(s, p, i + 1)

\* s.rfind(p) + 1 of Python: the last index where p occurs, or 0.
RECURSIVE rfindFrom(_, _, _)
rfindFrom(s, p, i) ==
    IF i < 1 THEN 0
    ELSE IF At(s, i, p) THEN i
    ELSE rfindFrom(s, p, i - 1)

rfind(s, p) == rfindFrom(s, p, Len(s))

\* s with every character of C removed.
RECURSIVE RemoveChars(_, _)
RemoveChars(s, C) ==
    IF s = "" THEN ""
    ELSE (IF Ch(s, 1) \in C THEN "" ELSE Ch(s, 1)) \o RemoveChars(From(s, 2), C)

\* s.split(d) of Python for a one-character d.
RECURSIVE split(_, _)
split(s, d) ==
    LET i == find(s, d, 1)
    IN  IF i = 0 THEN <<s>>
        ELSE <<SubSeq(s, 1, i - 1)>> \o split(From(s, i + 1), d)

\* d.join(parts) of Python.
RECURSIVE join(_, _)
join(parts, d) ==
    IF Len(parts) = 0 THEN ""
    ELSE IF Len(parts) = 1 THEN parts[1]
    ELSE parts[1] \o d \o join(Tail(parts), d)

\* The sequences that list every element of the finite set S exactly once.
Orders(S) ==
    {f \in [1 .. Cardinality(S) -> S] :
        \A i, j \in 1 .. Cardinality(S) : i # j => f[i] # f[j]}

Lower ==
    {"a", "b", "c", "d", "e", "f", "g", "h", "i", "j", "k", "l", "m",
     "n", "o", "p", "q", "r", "s", "t", "u", "v", "w", "x", "y", "z"}

Upper ==
    {"A", "B", "C", "D", "E", "F", "G", "H", "I", "J", "K", "L", "M",
     "N", "O", "P", "Q", "R", "S", "T", "U", "V", "W", "X", "Y", "Z"}

Digit == {"0", "1", "2", "3", "4", "5", "6", "7", "8", "9"}

AlNum == Lower \cup Upper \cup Digit

\* \w of re, on ASCII text.
WordChars == AlNum \cup {"_"}

\* \s of re, on ASCII text (the vertical tab has no TLA+ escape).
Whitespace == {" ", "\t", "\n", "\r", "\f"}

----------------------------------------------------------------------------
\* url_pattern:
\*   [http[s]?:\/\/]?(www\.)?([-a-zA-Z0-9@:%._\+~#=]{1,256}\.
\*   [a-zA-Z0-9()]{1,6}\b[-a-zA-Z0-9()@:%_\+.~#?&\/\/=]*)
\* re reads it as: an optional character of the class [http[s], the
\* literal ://, an optional ], group 1 (www\.)?, group 2.

\* The class [http[s] (the characters h, t, p, [ and s).
SchemeClass == {"h", "t", "p", "[", "s"}

\* [-a-zA-Z0-9@:%._\+~#=]
HostChars == AlNum \cup {"-", "@", ":", "%", ".", "_", "+", "~", "#", "="}

\* [a-zA-Z0-9()]
TldChars == AlNum \cup {"(", ")"}

\* [-a-zA-Z0-9()@:%_\+.~#?&\/\/=]
PathChars ==
    AlNum \cup {"-", "(", ")", "@", ":", "%", "_", "+", ".", "~", "#", "?",
                "&", "/", "="}

\* {1,256}
MaxHostLen == 256

\* {1,6}
MaxTldLen == 6

\* \b between the characters at i - 1 and i.
WordBoundary(s, i) == (Ch(s, i - 1) \in WordChars) # (Ch(s, i) \in WordChars)

\* The lengths t of [a-zA-Z0-9()]{1,6}\b that match at i.
TldLens(s, i) ==
    {t \in 1 .. Min(MaxTldLen, Run(s, i, TldChars)) : WordBoundary(s, i + t)}

\* The lengths h of [...]{1,256} at p after which \. and the TLD part match.
HostLens(s, p) ==
    {h \in 1 .. Min(MaxHostLen, Run(s, p, HostChars)) :
        Ch(s, p + h) = "." /\ TldLens(s, p + h + 1) # {}}

Largest(S) == CHOOSE x \in S : \A y \in S : y <= x

\* Group 2 matched at p by the backtracking search (each quantifier greedy:
\* the longest host part, then the longest TLD part, then the longest
\* tail): the index after the match, 0 when there is no match.
group2_end(s, p) ==
    LET hs == HostLens(s, p)
    IN  IF hs = {} THEN 0
        ELSE LET h == Largest(hs)
                 q == p + h + 1 + Largest(TldLens(s, p + h + 1))
             IN  q + Run(s, q, PathChars)

\* The index after the prefix [http[s]?:\/\/]? matched at i, 0 for no match.
prefix_end(s, i) ==
    LET a == IF Ch(s, i) \in SchemeClass /\ At(s, i + 1, "://") THEN i + 4
             ELSE IF At(s, i, "://") THEN i + 3
             ELSE 0
    IN  IF a = 0 THEN 0 ELSE IF Ch(s, a) = "]" THEN a + 1 ELSE a

NoMatch == [end |-> 0, groups |-> <<"", "">>]

\* url_pattern matched at i: the index after the match and the two groups
\* (an unmatched group is "" in findall's tuples).
url_pattern_match(s, i) ==
    LET b == prefix_end(s, i)
        e1 == IF b # 0 /\ At(s, b, "www.") THEN group2_end(s, b + 4) ELSE 0
        e2 == IF b # 0 THEN group2_end(s, b) ELSE 0
    IN  IF e1 # 0 THEN [end |-> e1, groups |-> <<"www.", SubSeq(s, b + 4, e1 - 1)>>]
        ELSE IF e2 # 0 THEN [end |-> e2, groups |-> <<"", SubSeq(s, b, e2 - 1)>>]
        ELSE NoMatch

\* url_pattern.findall(text) from index i on: the group tuples of the
\* non-overlapping matches, left to right.
RECURSIVE url_pattern_findall(_, _)
url_pattern_findall(s, i) ==
    IF i > Len(s) THEN <<>>
    ELSE LET m == url_pattern_match(s, i)
         IN  IF m.end # 0 THEN <<m.groups>> \o url_pattern_findall(s, m.end)
             ELSE url_pattern_findall(s, i + 1)

\* re.fullmatch(url_pattern, url): some way to match reaches the end.
full_group2(s, p) ==
    \E h \in HostLens(s, p) :
        \E t \in TldLens(s, p + h + 1) :
            LET q == p + h + 1 + t
            IN  q + Run(s, q, PathChars) = Len(s) + 1

_is_valid_url(url) ==
    LET b == prefix_end(url, 1)
    IN  /\ b # 0
        /\ \/ At(url, b, "www.") /\ full_group2(url, b + 4)
           \/ full_group2(url, b)

----------------------------------------------------------------------------
\* relative_url_pattern: [\(](/[^\(\)\s]*)

\* relative_url_pattern.findall(text) from index i on: group 1 of each match.
RECURSIVE relative_url_pattern_findall(_, _)
relative_url_pattern_findall(s, i) ==
    IF i > Len(s) THEN <<>>
    ELSE IF At(s, i, "(/")
         THEN LET e == i + 2 + RunNot(s, i + 2, {"(", ")"} \cup Whitespace)
              IN  <<SubSeq(s, i + 1, e - 1)>> \o relative_url_pattern_findall(s, e)
         ELSE relative_url_pattern_findall(s, i + 1)

----------------------------------------------------------------------------
\* _clean_urls

\* The delimiter pairs of the re.sub calls, in the order of the code.
StripRules == <<"](", "[(", "[)", "])", ")[", ")[", "(]", ")]">>

\* re.sub(r".*?" + pair, "", s) from index p on. re.sub replaces every
\* non-overlapping match. A match that starts at p runs to the first pair
\* at or after p; "." does not match a line break, so when one lies before
\* that pair the match starts after the last of them, and the text up to
\* and including that line break is kept.
RECURSIVE re_sub_from(_, _, _)
re_sub_from(pair, s, p) ==
    LET j == find(s, pair, p)
    IN  IF j = 0 THEN From(s, p)
        ELSE LET n == rfindFrom(SubSeq(s, 1, j - 1), "\n", j - 1)
                 kept == IF n >= p THEN SubSeq(s, p, n) ELSE ""
             IN  kept \o re_sub_from(pair, s, j + 2)

\* A faulty variant of re_sub: re.sub(..., count=1), only the first match is replaced.
re_sub_first(pair, s) ==
    LET j == find(s, pair, 1)
        n == rfindFrom(s, "\n", j - 1)
    IN  IF j = 0 THEN s
        ELSE (IF n >= 1 THEN SubSeq(s, 1, n) ELSE "") \o From(s, j + 2)

re_sub(pair, s) == re_sub_from(pair, s, 1)

\* The re.sub calls k .. 8 applied in order to url.
RECURSIVE strip_rules_from(_, _)
strip_rules_from(k, url) ==
    IF k > Len(StripRules) THEN url
    ELSE strip_rules_from(k + 1, re_sub(StripRules[k], url))

\* A faulty variant of rstrip: only one trailing character is removed.
rstrip_once(s, C) ==
    IF s # "" /\ Ch(s, Len(s)) \in C THEN SubSeq(s, 1, Len(s) - 1) ELSE s

\* url.rstrip(").-")
RECURSIVE rstrip(_, _)
rstrip(s, C) ==
    IF s # "" /\ Ch(s, Len(s)) \in C THEN rstrip(SubSeq(s, 1, Len(s) - 1), C)
    ELSE s

\* The characters of url.rstrip(").-").
TrimChars == {")", ".", "-"}

\* The body of the loop of _clean_urls for one url, before the length test.
clean_one(url) ==
    rstrip(IF _is_valid_url(url) THEN url ELSE strip_rules_from(1, url),
           TrimChars)

\* "if len(url) > 0: cleaned_urls.append(url)"
append_nonempty(cleaned_urls, url) ==
    IF Len(url) > 0 THEN Append(cleaned_urls, url) ELSE cleaned_urls

RECURSIVE clean_loop(_, _)
clean_loop(urls, cleaned_urls) ==
    IF Len(urls) = 0 THEN cleaned_urls
    ELSE clean_loop(Tail(urls), append_nonempty(cleaned_urls, clean_one(Head(urls))))

_clean_urls(urls) == clean_loop(urls, <<>>)

----------------------------------------------------------------------------
\* urllib.parse.urljoin (CPython 3.11), the library call of _extract_urls.
\* The ValueError of urlsplit for a netloc with an unbalanced bracket is
\* not modelled: no base URL of the model holds a bracket, a relative
\* candidate has its brackets filtered out and no character class of
\* url_pattern's group 2 holds one.

\* uses_relative
uses_relative ==
    {"", "ftp", "http", "gopher", "nntp", "imap", "wais", "file", "https",
     "shttp", "mms", "prospero", "rtsp", "rtsps", "rtspu", "sftp", "svn",
     "svn+ssh", "ws", "wss"}

\* uses_netloc
uses_netloc ==
    {"", "ftp", "http", "gopher", "nntp", "telnet", "imap", "wais", "file",
     "mms", "https", "shttp", "snews", "prospero", "rtsp", "rtsps", "rtspu",
     "rsync", "svn", "svn+ssh", "sftp", "nfs", "git", "git+ssh", "ws", "wss"}

\* uses_params
uses_params ==
    {"", "ftp", "hdl", "prospero", "http", "imap", "https", "shttp", "rtsp",
     "rtsps", "rtspu", "sip", "sips", "mms", "sftp", "tel"}

\* scheme_chars
scheme_chars == AlNum \cup {"+", "-", "."}

LowerOf ==
    [c \in Upper |->
        CASE c = "A" -> "a" [] c = "B" -> "b" [] c = "C" -> "c" [] c = "D" -> "d"
          [] c = "E" -> "e" [] c = "F" -> "f" [] c = "G" -> "g" [] c = "H" -> "h"
          [] c = "I" -> "i" [] c = "J" -> "j" [] c = "K" -> "k" [] c = "L" -> "l"
          [] c = "M" -> "m" [] c = "N" -> "n" [] c = "O" -> "o" [] c = "P" -> "p"
          [] c = "Q" -> "q" [] c = "R" -> "r" [] c = "S" -> "s" [] c = "T" -> "t"
          [] c = "U" -> "u" [] c = "V" -> "v" [] c = "W" -> "w" [] c = "X" -> "x"
          [] c = "Y" -> "y" [] c = "Z" -> "z"]

\* s.lower()
RECURSIVE lower(_)
lower(s) ==
    IF s = "" THEN ""
    ELSE (IF Ch(s, 1) \in Upper THEN LowerOf[Ch(s, 1)] ELSE Ch(s, 1))
         \o lower(From(s, 2))

\* url.lstrip(_WHATWG_C0_CONTROL_OR_SPACE), for the characters of Whitespace.
lstrip_space(s) == From(s, 1 + Run(s, 1, Whitespace))

\* _splitnetloc(url, 2): the index of the earliest of / ? # from index 3
\* on, Len(url) + 1 when there is none.
netloc_end(url) == 3 + RunNot(url, 3, {"/", "?", "#"})

\* The index of the ":" that ends a scheme at the head of url, 0 when url
\* starts with no scheme (i > 0, an ASCII letter first, scheme_chars only).
scheme_end(url) ==
    LET i == find(url, ":", 1)
    IN  IF /\ i > 1
           /\ Ch(url, 1) \in Lower \cup Upper
           /\ Run(url, 1, scheme_chars) >= i - 1
        THEN i ELSE 0

\* The end of urlsplit: the query is split off at the first "?".
split_query(scheme, netloc, url, fragment) ==
    LET q == find(url, "?", 1)
    IN  [scheme |-> scheme, netloc |-> netloc,
         path |-> IF q # 0 THEN SubSeq(url, 1, q - 1) ELSE url,
         query |-> IF q # 0 THEN From(url, q + 1) ELSE "",
         fragment |-> fragment]

\* The fragment is split off at the first "#".
split_fragment(scheme, netloc, url) ==
    LET f == find(url, "#", 1)
    IN  split_query(scheme, netloc,
                    IF f # 0 THEN SubSeq(url, 1, f - 1) ELSE url,
                    IF f # 0 THEN From(url, f + 1) ELSE "")

\* url[:2] == '//': the netloc is split off.
split_netloc(scheme, url) ==
    IF startswith(url, "//")
    THEN split_fragment(scheme, SubSeq(url, 3, netloc_end(url) - 1),
                        From(url, netloc_end(url)))
    ELSE split_fragment(scheme, "", url)

\* The scheme that ends at index i is split off and lower-cased.
split_scheme(url, scheme0, i) ==
    IF i # 0 THEN split_netloc(lower(SubSeq(url, 1, i - 1)), From(url, i + 1))
    ELSE split_netloc(scheme0, url)

split_stripped(url, scheme0) == split_scheme(url, scheme0, scheme_end(url))

\* urlsplit(url, scheme): [scheme, netloc, path, query, fragment].
urlsplit(url, scheme0) ==
    split_stripped(RemoveChars(lstrip_space(url), {"\t", "\r", "\n"}), scheme0)

\* _splitparams(url): the index of the ";" that starts the params, 0 for none.
splitparams_at(url) ==
    IF find(url, "/", 1) # 0 THEN find(url, ";", rfind(url, "/"))
    ELSE find(url, ";", 1)

\* The params are split off the path of r at index i (0: there are none).
with_params(r, i) ==
    [scheme |-> r.scheme, netloc |-> r.netloc,
     path |-> IF i # 0 THEN SubSeq(r.path, 1, i - 1) ELSE r.path,
     params |-> IF i # 0 THEN From(r.path, i + 1) ELSE "",
     query |-> r.query, fragment |-> r.fragment]

split_params(r) ==
    with_params(r, IF r.scheme \in uses_params THEN splitparams_at(r.path) ELSE 0)

\* urlparse(url, scheme): urlsplit's record with the params split off.
urlparse(url, scheme0) == split_params(urlsplit(url, scheme0))

\* The end of urlunsplit: the scheme, the query and the fragment are put back.
unsplit_rest(scheme, url, query, fragment) ==
    (IF scheme # "" THEN scheme \o ":" ELSE "") \o url
    \o (IF query # "" THEN "?" \o query ELSE "")
    \o (IF fragment # "" THEN "#" \o fragment ELSE "")

\* urlunsplit((scheme, netloc, url, query, fragment))
urlunsplit(scheme, netloc, url, query, fragment) ==
    unsplit_rest(
        scheme,
        IF netloc # ""
           \/ (scheme # "" /\ scheme \in uses_netloc /\ ~startswith(url, "//"))
        THEN "//" \o netloc
             \o (IF url # "" /\ ~startswith(url, "/") THEN "/" ELSE "") \o url
        ELSE url,
        query, fragment)

\* urlunparse((scheme, netloc, url, params, query, fragment))
urlunparse(scheme, netloc, url, params, query, fragment) ==
    urlunsplit(scheme, netloc,
               IF params # "" THEN url \o ";" \o params ELSE url,
               query, fragment)

\* segments[1:-1] = filter(None, segments[1:-1])
drop_empty_inner(segments) ==
    IF Len(segments) <= 2 THEN segments
    ELSE <<segments[1]>>
         \o SelectSeq(SubSeq(segments, 2, Len(segments) - 1), LAMBDA x : x # "")
         \o <<segments[Len(segments)]>>

\* The loop over segments that builds resolved_path.
RECURSIVE resolve_segments(_, _)
resolve_segments(segments, resolved_path) ==
    IF Len(segments) = 0 THEN resolved_path
    ELSE resolve_segments(
             Tail(segments),
             IF Head(segments) = ".."
             THEN (IF Len(resolved_path) = 0 THEN resolved_path
                   ELSE SubSeq(resolved_path, 1, Len(resolved_path) - 1))
             ELSE IF Head(segments) = "." THEN resolved_path
             ELSE Append(resolved_path, Head(segments)))

\* base_parts: bpath.split('/') without a last item that is no directory.
drop_last_file(parts) ==
    IF parts[Len(parts)] # "" THEN SubSeq(parts, 1, Len(parts) - 1) ELSE parts

\* segments of urljoin.
join_segments(bpath, path) ==
    IF startswith(path, "/") THEN split(path, "/")
    ELSE drop_empty_inner(drop_last_file(split(bpath, "/")) \o split(path, "/"))

\* '/'.join(resolved_path) or '/'
or_slash(path) == IF path = "" THEN "/" ELSE path

\* The resolved path of urljoin for these segments.
resolved_path_of(segments) ==
    or_slash(join(resolve_segments(segments, <<>>)
                  \o (IF segments[Len(segments)] \in {".", ".."}
                      THEN <<"">> ELSE <<>>),
                  "/"))

\* urljoin after both urlparse calls: b is the parsed base, u the parsed url.
urljoin_parsed(url, b, u) ==
    IF u.scheme # b.scheme \/ u.scheme \notin uses_relative THEN url
    ELSE IF u.scheme \in uses_netloc /\ u.netloc # ""
    THEN urlunparse(u.scheme, u.netloc, u.path, u.params, u.query, u.fragment)
    ELSE IF u.path = "" /\ u.params = ""
    THEN urlunparse(u.scheme,
                    IF u.scheme \in uses_netloc THEN b.netloc ELSE u.netloc,
                    b.path, b.params,
                    IF u.query = "" THEN b.query ELSE u.query, u.fragment)
    ELSE urlunparse(u.scheme,
                    IF u.scheme \in uses_netloc THEN b.netloc ELSE u.netloc,
                    resolved_path_of(join_segments(b.path, u.path)),
                    u.params, u.query, u.fragment)

urljoin_base(url, b) == urljoin_parsed(url, b, urlparse(url, b.scheme))

\* urljoin(base, url) for a non-empty base and a non-empty url.
urljoin_str(base, url) == urljoin_base(url, urlparse(base, ""))

\* A base URL is a record: None of Python is [none |-> TRUE, str |-> ""],
\* a str s is [none |-> FALSE, str |-> s].
None == [none |-> TRUE, str |-> ""]

Str(s) == [none |-> FALSE, str |-> s]

\* urljoin(base, url): "if not base: return url", "if not url: return base".
urljoin(base, url) ==
    IF base.none \/ base.str = "" THEN url
    ELSE IF url = "" THEN base.str
    ELSE urljoin_str(base.str, url)

----------------------------------------------------------------------------
\* Collaborators and configuration.

\* default_filters.filter_dict["img_exts"]: the configured image extensions.
image_extensions == {".png", ".jpg"}

\* split_text_into_chunks(text, chunk_size): the external chunker, a black
\* box; its result is an uninterpreted term over its two arguments.
split_text_into_chunks(text, size) == <<[text |-> text, chunk_size |-> size]>>

\* int(chunk_size * 0.8): int() truncates toward zero.
int_08(n) == IF n >= 0 THEN (n * 8) \div 10 ELSE -((-n * 8) \div 10)

\* The chunk budget of the parse_html branch.
budget_html(n) == n - 250

\* A faulty variant of budget_text: the fixed margin alone, without the min.
budget_text_margin_only(n) == n - 500

\* The chunk budget of the other branch: min(chunk_size - 500, int(chunk_size * 0.8)).
budget_text(n) == Min(n - 500, int_08(n))

Range(f) == {f[i] : i \in DOMAIN f}

\* any(url.endswith(ext) for ext in image_extensions)
is_image(url) == \E ext \in image_extensions : endswith(url, ext)

\* The characters the loop over a relative match leaves out.
BracketChars == {"[", "]", "(", ")", "{", "}"}

\* The set all_urls after both findall loops.
matched_urls(text, src) ==
    {g[1] \o g[2] : g \in Range(url_pattern_findall(text, 1))}
    \cup {urljoin(src, RemoveChars(g, BracketChars)) :
            g \in Range(relative_url_pattern_findall(text, 1))}

\* The list all_urls after the startswith test on the base URL.
resolved_urls(urls, src) ==
    IF ~startswith(src.str, "http")
    THEN SelectSeq(urls, LAMBDA u : startswith(u, "http"))
    ELSE [i \in 1 .. Len(urls) |-> urljoin(src, urls[i])]

\* images of _extract_urls.
images_of(urls) == SelectSeq(urls, is_image)

\* A faulty variant of links_of: the images are not left out of the links.
links_of_all(urls) == urls

\* links of _extract_urls.
links_of(urls) == SelectSeq(urls, LAMBDA u : u \notin Range(images_of(urls)))

----------------------------------------------------------------------------
\* Inputs of the model.

\* The pieces a document text is made of.
Frags ==
    {"https://a.io/x", "http://httpx.io/i.png", "(/p/q", "(//b.io/i.jpg",
     ". ", ")", " [t]", "(/."}

RECURSIVE TextsUpTo(_)
TextsUpTo(n) ==
    IF n = 0 THEN {""}
    ELSE LET prev == TextsUpTo(n - 1)
         IN  prev \cup {t \o f : t \in prev, f \in Frags}

DocsExample == "See [docs](/guide/start) and [logo](https://cdn.ex.com/logo.png)"

StrayExample == "visit (/a/b) stray"

RepeatExample == "see https://ex.com/a. and https://ex.com/a"

Texts == TextsUpTo(MaxFrags) \cup {DocsExample, StrayExample, RepeatExample}

\* The values of the source-URL input.
Sources ==
    {None, Str("not-a-url"), Str("https://ex.com/page"), Str("http://a.io/d/"),
     Str("httpx")}

ChunkSizes == {-3, 1000, 3000}

\* The pieces a candidate handed to the Cleaner is made of.
Pieces == {"a", "](", ")[", "[(", ".", ")", "://b.io", "\n"}

RECURSIVE CandidatesUpTo(_)
CandidatesUpTo(n) ==
    IF n = 0 THEN {""}
    ELSE LET prev == CandidatesUpTo(n - 1)
         IN  prev \cup {t \o f : t \in prev, f \in Pieces}

Candidates == CandidatesUpTo(MaxPieces)

\* The lists handed to the Cleaner: none, one or two candidates.
UrlLists ==
    {<<>>} \cup {<<c>> : c \in Candidates}
    \cup {<<c, d>> : c \in Candidates, d \in {"", "x](y.", "s://b.io/)"}}

----------------------------------------------------------------------------
\* State.

VARIABLES
    parse_html,     \* self.parse_html
    parse_urls,     \* self.parse_urls
    chunk_size,     \* self.chunk_size
    state,          \* the state dict: the source URL and the output keys
    pc,             \* the position of execute
    page_content,   \* the text of docs_transformed
    is_document,    \* whether docs_transformed is a Document
    source,         \* the local source
    all_urls,       \* the local all_urls of _extract_urls, once a list
    link_urls,      \* the local link_urls
    img_urls,       \* the local img_urls
    chunks,         \* the local chunks
    chunker_calls,  \* the chunk_size of each call of the chunker so far
    findall_calls,  \* the number of findall calls so far
    cl              \* a run of _clean_urls, statement by statement

vars ==
    <<parse_html, parse_urls, chunk_size, state, pc, page_content, is_document,
      source, all_urls, link_urls, img_urls, chunks, chunker_calls,
      findall_calls, cl>>

exec_vars ==
    <<parse_html, parse_urls, chunk_size, state, pc, page_content, is_document,
      source, all_urls, link_urls, img_urls, chunks, chunker_calls,
      findall_calls>>

\* A key of the state dict: absent, or present with a value.
Absent == [set |-> FALSE, val |-> <<>>]

Present(v) == [set |-> TRUE, val |-> v]

ClIdle ==
    [pc |-> "idle", orig |-> <<>>, input |-> <<>>, i |-> 1, url |-> "",
     valid |-> FALSE, k |-> 1, prev |-> "", out |-> <<>>, pass |-> 1,
     first |-> <<>>]

----------------------------------------------------------------------------
\* execute

Init ==
    /\ parse_html \in BOOLEAN
    /\ parse_urls \in BOOLEAN
    /\ chunk_size \in ChunkSizes
    /\ \E src \in Sources :
           state = [url |-> src, output0 |-> Absent, parsed_doc |-> Absent,
                    link_urls |-> Absent, img_urls |-> Absent]
    /\ pc = "start"
    /\ page_content = ""
    /\ is_document = TRUE
    /\ source = None
    /\ all_urls = <<>>
    /\ link_urls = <<>>
    /\ img_urls = <<>>
    /\ chunks = <<>>
    /\ chunker_calls = <<>>
    /\ findall_calls = 0
    /\ cl = ClIdle

\* Lines 80-89 and 100: the inputs are read; with parse_html the external
\* Html2TextTransformer yields a Document with some text, otherwise the
\* payload is taken as it is, a Document or not.
ReadInputs ==
    /\ pc = "start"
    /\ \E text \in Texts, isdoc \in (IF parse_html THEN {TRUE} ELSE BOOLEAN) :
           /\ page_content' = text
           /\ is_document' = isdoc
    /\ source' = IF parse_urls THEN state.url ELSE None
    /\ pc' = "extract"
    /\ UNCHANGED <<parse_html, parse_urls, chunk_size, state, all_urls,
                   link_urls, img_urls, chunks, chunker_calls, findall_calls, cl>>

\* Lines 102-107: a payload that is no Document has no page_content; the
\* AttributeError is raised inside the try and caught.
ExtractNotDocument ==
    /\ pc = "extract"
    /\ ~is_document
    /\ link_urls' = ""
    /\ img_urls' = ""
    /\ pc' = "chunk"
    /\ UNCHANGED <<parse_html, parse_urls, chunk_size, state, page_content,
                   is_document, source, all_urls, chunks, chunker_calls,
                   findall_calls, cl>>

\* Lines 141-142: _extract_urls with parse_urls off.
ExtractDisabled ==
    /\ pc = "extract"
    /\ is_document
    /\ ~parse_urls
    /\ link_urls' = <<>>
    /\ img_urls' = <<>>
    /\ pc' = "chunk"
    /\ UNCHANGED <<parse_html, parse_urls, chunk_size, state, page_content,
                   is_document, source, all_urls, chunks, chunker_calls,
                   findall_calls, cl>>

\* Lines 144-163: both findall loops fill the set all_urls; list(all_urls)
\* lists it in the iteration order of a set of str, which is any order.
Match ==
    /\ pc = "extract"
    /\ is_document
    /\ parse_urls
    /\ all_urls' \in Orders(matched_urls(page_content, source))
    /\ findall_calls' = findall_calls + 2
    /\ pc' = "clean"
    /\ UNCHANGED <<parse_html, parse_urls, chunk_size, state, page_content,
                   is_document, source, link_urls, img_urls, chunks,
                   chunker_calls, cl>>

\* Line 164.
Clean ==
    /\ pc = "clean"
    /\ all_urls' = _clean_urls(all_urls)
    /\ pc' = "resolve"
    /\ UNCHANGED <<parse_html, parse_urls, chunk_size, state, page_content,
                   is_document, source, link_urls, img_urls, chunks,
                   chunker_calls, findall_calls, cl>>

\* A faulty variant of ResolveRaises: the call of line 103 stands in no try either.
ResolveRaisesUncaught ==
    /\ pc = "resolve"
    /\ source.none
    /\ pc' = "raised"
    /\ UNCHANGED <<parse_html, parse_urls, chunk_size, state, page_content,
                   is_document, source, all_urls, link_urls, img_urls, chunks,
                   chunker_calls, findall_calls, cl>>

\* Line 165 with source None: source.startswith raises AttributeError. The
\* call of line 91 stands in no try, so execute ends with the exception;
\* the call of line 103 stands in one, and line 107 runs.
ResolveRaises ==
    /\ pc = "resolve"
    /\ source.none
    /\ IF parse_html
       THEN /\ pc' = "raised"
            /\ UNCHANGED <<link_urls, img_urls>>
       ELSE /\ pc' = "chunk"
            /\ link_urls' = ""
            /\ img_urls' = ""
    /\ UNCHANGED <<parse_html, parse_urls, chunk_size, state, page_content,
                   is_document, source, all_urls, chunks, chunker_calls,
                   findall_calls, cl>>

\* Lines 165-168.
Resolve ==
    /\ pc = "resolve"
    /\ ~source.none
    /\ all_urls' = resolved_urls(all_urls, source)
    /\ pc' = "classify"
    /\ UNCHANGED <<parse_html, parse_urls, chunk_size, state, page_content,
                   is_document, source, link_urls, img_urls, chunks,
                   chunker_calls, findall_calls, cl>>

\* Lines 170-177.
Classify ==
    /\ pc = "classify"
    /\ img_urls' = images_of(all_urls)
    /\ link_urls' = links_of(all_urls)
    /\ pc' = "chunk"
    /\ UNCHANGED <<parse_html, parse_urls, chunk_size, state, page_content,
                   is_document, source, all_urls, chunks, chunker_calls,
                   findall_calls, cl>>

\* Lines 95-98 and 109-120: the one call of the chunker on each branch.
Chunk ==
    /\ pc = "chunk"
    /\ LET budget == IF parse_html THEN budget_html(chunk_size)
                     ELSE budget_text(chunk_size)
       IN  /\ chunks' = split_text_into_chunks(page_content, budget)
           /\ chunker_calls' = Append(chunker_calls, budget)
    /\ pc' = "update"
    /\ UNCHANGED <<parse_html, parse_urls, chunk_size, state, page_content,
                   is_document, source, all_urls, link_urls, img_urls,
                   findall_calls, cl>>

\* A faulty variant of Update: lines 126-127 run without the test of line 125.
UpdateAlways ==
    /\ pc = "update"
    /\ state' = [state EXCEPT
                    !.output0 = Present(chunks),
                    !.parsed_doc = Present(chunks),
                    !.link_urls = Present(link_urls),
                    !.img_urls = Present(img_urls)]
    /\ pc' = "done"
    /\ UNCHANGED <<parse_html, parse_urls, chunk_size, page_content,
                   is_document, source, all_urls, link_urls, img_urls, chunks,
                   chunker_calls, findall_calls, cl>>

\* Lines 122-129.
Update ==
    /\ pc = "update"
    /\ state' = [state EXCEPT
                    !.output0 = Present(chunks),
                    !.parsed_doc = Present(chunks),
                    !.link_urls = IF parse_urls THEN Present(link_urls) ELSE @,
                    !.img_urls = IF parse_urls THEN Present(img_urls) ELSE @]
    /\ pc' = "done"
    /\ UNCHANGED <<parse_html, parse_urls, chunk_size, page_content,
                   is_document, source, all_urls, link_urls, img_urls, chunks,
                   chunker_calls, findall_calls, cl>>

Next ==
    \/ ReadInputs
    \/ ExtractNotDocument
    \/ ExtractDisabled
    \/ Match
    \/ Clean
    \/ ResolveRaises
    \/ Resolve
    \/ Classify
    \/ Chunk
    \/ Update

Spec == Init /\ [][Next]_vars

----------------------------------------------------------------------------
\* _clean_urls, statement by statement, called on a list and then on its
\* own result.

InitClean ==
    /\ parse_html = FALSE
    /\ parse_urls = FALSE
    /\ chunk_size = 0
    /\ state = [url |-> None, output0 |-> Absent, parsed_doc |-> Absent,
                link_urls |-> Absent, img_urls |-> Absent]
    /\ pc = "idle"
    /\ page_content = ""
    /\ is_document = TRUE
    /\ source = None
    /\ all_urls = <<>>
    /\ link_urls = <<>>
    /\ img_urls = <<>>
    /\ chunks = <<>>
    /\ chunker_calls = <<>>
    /\ findall_calls = 0
    /\ \E urls \in UrlLists :
           cl = [ClIdle EXCEPT !.pc = "next", !.orig = urls, !.input = urls]

\* Lines 190-191: the loop takes the next url and tests it.
CleanNext ==
    /\ cl.pc = "next"
    /\ cl.i <= Len(cl.input)
    /\ cl' = [cl EXCEPT
                 !.url = cl.input[cl.i],
                 !.prev = cl.input[cl.i],
                 !.valid = _is_valid_url(cl.input[cl.i]),
                 !.k = 1,
                 !.pc = IF _is_valid_url(cl.input[cl.i]) THEN "trim" ELSE "rules"]
    /\ UNCHANGED exec_vars

\* One of lines 192-199: the re.sub call number k.
CleanRule ==
    /\ cl.pc = "rules"
    /\ cl' = [cl EXCEPT
                 !.prev = cl.url,
                 !.url = re_sub(StripRules[cl.k], cl.url),
                 !.k = cl.k + 1,
                 !.pc = IF cl.k = Len(StripRules) THEN "trim" ELSE "rules"]
    /\ UNCHANGED exec_vars

\* Lines 200-202.
CleanTrim ==
    /\ cl.pc = "trim"
    /\ cl' = [cl EXCEPT
                 !.prev = cl.url,
                 !.url = rstrip(cl.url, TrimChars),
                 !.out = append_nonempty(cl.out, rstrip(cl.url, TrimChars)),
                 !.i = cl.i + 1,
                 !.pc = "next"]
    /\ UNCHANGED exec_vars

\* Line 204 of the first call; the result is handed to a second call.
CleanReturn ==
    /\ cl.pc = "next"
    /\ cl.i > Len(cl.input)
    /\ cl.pass = 1
    /\ cl' = [cl EXCEPT !.first = cl.out, !.input = cl.out, !.out = <<>>,
                        !.i = 1, !.pass = 2]
    /\ UNCHANGED exec_vars

\* Line 204 of the second call.
CleanReturnAgain ==
    /\ cl.pc = "next"
    /\ cl.i > Len(cl.input)
    /\ cl.pass = 2
    /\ cl' = [cl EXCEPT !.pc = "done"]
    /\ UNCHANGED exec_vars

NextClean ==
    \/ CleanNext
    \/ CleanRule
    \/ CleanTrim
    \/ CleanReturn
    \/ CleanReturnAgain

SpecClean == InitClean /\ [][NextClean]_vars

----------------------------------------------------------------------------
\* Properties.

NoDuplicates(urls) ==
    \A i, j \in 1 .. Len(urls) : i # j => urls[i] # urls[j]

\* _extract_urls has returned its two lists (lines 170-177 have run).
Extracted ==
    /\ parse_urls
    /\ is_document
    /\ ~source.none
    /\ pc \in {"chunk", "update", "done"}

\* The strings _extract_urls returned.
Returned == Range(link_urls) \cup Range(img_urls)

\* s starts with an HTTP(S) scheme marker.
HasHttpScheme(s) == startswith(s, "http://") \/ startswith(s, "https://")

\* C1: with parse_urls on, neither links nor images returned by
\* _extract_urls holds the same string twice, also when two raw candidates
\* become equal after cleaning or resolution.
C1_NoDuplicates ==
    Extracted => NoDuplicates(link_urls) /\ NoDuplicates(img_urls)

\* C2: links and images partition the cleaned and resolved list: a URL is in
\* images exactly when it ends with a configured image extension, every
\* other URL is in links, and no string is in both.
C2_Partition ==
    Extracted =>
        /\ \A i \in 1 .. Len(all_urls) :
               IF \E ext \in image_extensions : endswith(all_urls[i], ext)
               THEN all_urls[i] \in Range(img_urls)
                    /\ all_urls[i] \notin Range(link_urls)
               ELSE all_urls[i] \in Range(link_urls)
                    /\ all_urls[i] \notin Range(img_urls)
        /\ Range(link_urls) \cup Range(img_urls) = Range(all_urls)
        /\ Range(link_urls) \cap Range(img_urls) = {}

C2_Witness ==
    /\ Extracted
    /\ pc = "done"
    /\ Len(link_urls) > 0
    /\ Len(img_urls) > 0

\* URL extraction is enabled and fails: the base URL is absent, or the
\* payload is no Document.
ExtractionFails ==
    /\ parse_urls
    /\ pc # "start"
    /\ source.none \/ ~is_document

\* What C3 promises of a failed extraction: execute goes on, calls the
\* chunker, writes the chunks, and the links and images are empty.
DegradesToEmpty ==
    /\ pc # "raised"
    /\ pc \in {"chunk", "update", "done"} =>
           Len(link_urls) = 0 /\ Len(img_urls) = 0
    /\ pc \in {"update", "done"} => Len(chunker_calls) = 1
    /\ pc = "done" =>
           /\ state.output0 = Present(chunks)
           /\ state.link_urls.set /\ Len(state.link_urls.val) = 0
           /\ state.img_urls.set /\ Len(state.img_urls.val) = 0

\* C3 as stated: in both modes a failed URL extraction does not propagate.
C3_NoPropagationBothModes == ExtractionFails => DegradesToEmpty

\* C3 as amended: only with parse_html false does a failed URL extraction
\* degrade to empty links and images; with parse_html true the exception
\* leaves execute, the chunker is not called and the state is not written.
C3_NoPropagationTextMode ==
    /\ (ExtractionFails /\ ~parse_html) => DegradesToEmpty
    /\ (ExtractionFails /\ parse_html) => pc \in {"extract", "clean", "resolve", "raised"}
    /\ pc = "raised" =>
           /\ parse_html /\ ExtractionFails
           /\ chunker_calls = <<>>
           /\ ~state.output0.set /\ ~state.parsed_doc.set
           /\ ~state.link_urls.set /\ ~state.img_urls.set

C3_Witness ==
    /\ ~parse_html
    /\ parse_urls
    /\ is_document
    /\ state.url.none
    /\ page_content = DocsExample
    /\ pc = "done"

\* C4: if base_url starts with no HTTP(S) scheme marker, every returned
\* string starts with one; "visit (/a/b) stray" with base_url "not-a-url"
\* yields two empty collections.
C4_OnlyHttpSchemeUrls ==
    (Extracted /\ ~HasHttpScheme(source.str)) =>
        /\ \A u \in Returned : HasHttpScheme(u)
        /\ (page_content = StrayExample /\ source = Str("not-a-url")) =>
               Len(link_urls) = 0 /\ Len(img_urls) = 0

\* The scheme and the host of an absolute URL.
SchemeAndHost(u) == <<urlsplit(u, "").scheme, urlsplit(u, "").netloc>>

\* The absolute URLs written in the text: http:// or https:// at index i
\* and what url_pattern matches from the "://" on, without the trailing
\* characters the Cleaner trims.
AbsoluteUrlsIn(text) ==
    {rstrip(SubSeq(text, i, url_pattern_match(text, j).end - 1), TrimChars) :
        <<i, j>> \in {<<i, j>> \in (1 .. Len(text)) \X (1 .. Len(text)) :
                        /\ \/ At(text, i, "http://") /\ j = i + 3
                           \/ At(text, i, "https://") /\ j = i + 4
                        /\ url_pattern_match(text, j).end # 0}}

\* The target of a relative candidate after its leading slashes, without
\* the brackets and the trailing characters the extraction leaves out.
RelativeTail(c) ==
    rstrip(RemoveChars(From(c, 1 + Run(c, 1, {"/"})), BracketChars), TrimChars)

\* C5: if base_url starts with an HTTP(S) scheme, every candidate of the
\* relative-URL pattern (also one that starts with two slashes) is in the
\* result as an absolute URL with the scheme and host of base_url, and a
\* candidate that is already absolute is returned unchanged.
C5_RelativeResolvedAbsoluteKept ==
    (Extracted /\ HasHttpScheme(source.str)) =>
        /\ \A c \in Range(relative_url_pattern_findall(page_content, 1)) :
               \E u \in Returned :
                   /\ SchemeAndHost(u) = SchemeAndHost(source.str)
                   /\ endswith(u, RelativeTail(c))
        /\ \A a \in AbsoluteUrlsIn(page_content) : a \in Returned

\* C6: the text of the example with base_url "https://ex.com/page" yields
\* links = ["https://ex.com/guide/start"] and
\* images = ["https://cdn.ex.com/logo.png"].
C6_DocsExample ==
    (Extracted /\ page_content = DocsExample /\ source = Str("https://ex.com/page")) =>
        /\ link_urls = <<"https://ex.com/guide/start">>
        /\ img_urls = <<"https://cdn.ex.com/logo.png">>

C8_CleanIdempotent ==
    cl.pc = "done" =>
        /\ cl.out = cl.first
        /\ cl.first = _clean_urls(cl.orig)
        /\ _clean_urls(cl.first) = cl.first

C8_Witness ==
    /\ cl.pc = "done"
    /\ Len(cl.orig) = 2
    /\ Len(cl.first) = 2
    /\ cl.first[1] # cl.orig[1]
    /\ cl.first[2] # cl.orig[2]

\* C9: with parse_urls false, URL extraction returns two empty collections
\* and matches no pattern, the source-URL input is not read, and execute
\* writes the chunks only: the links and images keys of the state stay as
\* they were.
C9_DisabledNoExtraction ==
    ~parse_urls =>
        /\ findall_calls = 0
        /\ source.none
        /\ pc \in {"chunk", "update", "done"} =>
               Len(link_urls) = 0 /\ Len(img_urls) = 0
        /\ state.link_urls = Absent
        /\ state.img_urls = Absent
        /\ pc = "done" =>
               /\ state.output0 = Present(chunks)
               /\ state.parsed_doc = Present(chunks)

C9_Witness ==
    /\ ~parse_urls
    /\ pc = "done"
    /\ ~state.url.none
    /\ page_content = DocsExample

\* s after the first occurrence of pair, s itself when there is none.
AfterFirst(pair, s) ==
    IF find(s, pair, 1) = 0 THEN s ELSE From(s, find(s, pair, 1) + 2)

\* s after the last occurrence of pair, s itself when there is none.
AfterLast(pair, s) ==
    IF rfind(s, pair) = 0 THEN s ELSE From(s, rfind(s, pair) + 2)

\* The rules k .. 8, each cutting s after the last occurrence of its pair.
RECURSIVE AfterLastFrom(_, _)
AfterLastFrom(k, s) ==
    IF k > Len(StripRules) THEN s
    ELSE AfterLastFrom(k + 1, AfterLast(StripRules[k], s))

\* The re.sub call number cl.k - 1 has just run on cl.prev.
RuleApplied == cl.pc \in {"rules", "trim"} /\ ~cl.valid /\ cl.k > 1

\* C10 as stated, for a candidate without a line break: each stripping rule
\* removes the text up to and including the first occurrence of its pair
\* and leaves a later occurrence in the candidate.
C10_RuleStripsToFirst ==
    (RuleApplied /\ find(cl.prev, "\n", 1) = 0) =>
        cl.url = AfterFirst(StripRules[cl.k - 1], cl.prev)

\* C10 as amended: on a candidate without a line break each stripping rule
\* removes the text up to and including the last occurrence of its pair, so
\* none is left; the rules run once each in the fixed order, and a candidate
\* that is a full match is changed by the trailing trim only.
C10_RuleStripsToLast ==
    /\ (RuleApplied /\ find(cl.prev, "\n", 1) = 0) =>
           /\ cl.url = AfterLast(StripRules[cl.k - 1], cl.prev)
           /\ find(cl.url, StripRules[cl.k - 1], 1) = 0
    /\ (cl.pc = "trim" /\ ~cl.valid) =>
           /\ cl.k = Len(StripRules) + 1
           /\ find(cl.input[cl.i], "\n", 1) = 0 =>
                  cl.url = AfterLastFrom(1, cl.input[cl.i])
    /\ (cl.pc = "trim" /\ cl.valid) => cl.url = cl.input[cl.i] /\ cl.k = 1
    /\ (cl.pc = "next" /\ cl.i > 1 /\ cl.valid) =>
           cl.url = rstrip(cl.input[cl.i - 1], TrimChars)

C10_Witness ==
    /\ cl.pc = "rules"
    /\ cl.k = 2
    /\ find(cl.prev, "\n", 1) = 0
    /\ find(cl.prev, "](", 1) # 0
    /\ find(cl.prev, "](", 1) # rfind(cl.prev, "](")
    /\ cl.url # ""

=============================================================================
